---- MODULE Spec2Model ----
(***************************************************************************)
(* Template synthesis and layout anomaly detection of bank statements.     *)
(*                                                                         *)
(* Modelled programs:                                                      *)
(*   src/src/generate_templates.py  (template generation, median ranges)   *)
(*   src/generate_templates.py      (older template generation, averages)  *)
(*   src/src/detect_anomalies.py    (validation of one document)           *)
(*                                                                         *)
(* Representation.                                                         *)
(*   - A text (keyword, span text, font name) is a tuple of characters,    *)
(*     each character a one-element name such as "A" or "-".               *)
(*   - A number (coordinate, size) is a fixed-point integer counting       *)
(*     quarters of a unit: the float 10.5 is 42.  Inputs are multiples of  *)
(*     a half unit, so the median of an even number of them is exact.      *)
(*   - A Python dict is the sequence of its entries [k, v] in insertion    *)
(*     order (dicts iterate in insertion order, json keeps that order).    *)
(***************************************************************************)
EXTENDS Integers, Sequences, FiniteSets, TLC

\* ------------------------------------------------------------------------
\* Fixed point
\* ------------------------------------------------------------------------

\* n whole units
U(n) == 4 * n

\* n half units
H(n) == 2 * n

\* ------------------------------------------------------------------------
\* Characters and texts
\* ------------------------------------------------------------------------

UpperCase ==
    << "A", "B", "C", "D", "E", "F", "G", "H", "I", "J", "K", "L", "M",
       "N", "O", "P", "Q", "R", "S", "T", "U", "V", "W", "X", "Y", "Z" >>

LowerCase ==
    << "a", "b", "c", "d", "e", "f", "g", "h", "i", "j", "k", "l", "m",
       "n", "o", "p", "q", "r", "s", "t", "u", "v", "w", "x", "y", "z" >>

Digits == { "0", "1", "2", "3", "4", "5", "6", "7", "8", "9" }

Range(s) == { s[i] : i \in DOMAIN s }

\* Letters outside ASCII ("Eacute" is the upper case of "eacute").
NonAsciiUpper == { "Eacute" }
NonAsciiLower == { "eacute" }

AsciiAlnum == Range(UpperCase) \cup Range(LowerCase) \cup Digits

\* Python 3 str patterns: \w is every Unicode letter or digit, and "_".
WordChars == AsciiAlnum \cup { "_" } \cup NonAsciiUpper \cup NonAsciiLower

IsAsciiAlnum(c) == c \in AsciiAlnum

IsWordChar(c) == c \in WordChars

\* the lower case of the upper case letters
LowerOf ==
    [c \in Range(UpperCase) \cup NonAsciiUpper |->
        IF c = "Eacute" THEN "eacute"
        ELSE LowerCase[CHOOSE i \in DOMAIN UpperCase : UpperCase[i] = c]]

\* str.lower() on one character
LowerChar(c) == IF c \in DOMAIN LowerOf THEN LowerOf[c] ELSE c

\* str.lower()
Lower(s) == [i \in DOMAIN s |-> LowerChar(s[i])]

\* re.sub(r'\W+', '', text): the word characters of text, in order
RECURSIVE KeepWord(_)
KeepWord(s) ==
    IF s = << >> THEN << >>
    ELSE IF IsWordChar(Head(s)) THEN << Head(s) >> \o KeepWord(Tail(s))
         ELSE KeepWord(Tail(s))

\* re.sub(r'[^A-Za-z0-9]', '', text): the ASCII letters and digits of text
RECURSIVE KeepAlnum(_)
KeepAlnum(s) ==
    IF s = << >> THEN << >>
    ELSE IF IsAsciiAlnum(Head(s)) THEN << Head(s) >> \o KeepAlnum(Tail(s))
         ELSE KeepAlnum(Tail(s))

\* re.sub(r'\W+', '', text).lower()
NormWord(s) == Lower(KeepWord(s))

\* re.sub(r'[^A-Za-z0-9]', '', text).lower()
NormAlnum(s) == Lower(KeepAlnum(s))

\* a in b, for str
IsSubstr(a, b) ==
    \E i \in 0 .. (Len(b) - Len(a)) : SubSeq(b, i + 1, i + Len(a)) = a

\* " ".join(span["text"] for span in spans)
RECURSIVE JoinTexts(_)
JoinTexts(spans) ==
    IF spans = << >> THEN << >>
    ELSE IF Len(spans) = 1 THEN spans[1].text
         ELSE spans[1].text \o << " " >> \o JoinTexts(Tail(spans))

\* str.replace("-", "")
RECURSIVE RemoveHyphens(_)
RemoveHyphens(s) ==
    IF s = << >> THEN << >>
    ELSE IF Head(s) = "-" THEN RemoveHyphens(Tail(s))
         ELSE << Head(s) >> \o RemoveHyphens(Tail(s))

\* str.replace("mt", ""): non-overlapping occurrences, left to right
RECURSIVE RemoveMt(_)
RemoveMt(s) ==
    IF Len(s) < 2 THEN s
    ELSE IF s[1] = "m" /\ s[2] = "t" THEN RemoveMt(SubSeq(s, 3, Len(s)))
         ELSE << s[1] >> \o RemoveMt(Tail(s))

\* str.strip()
RECURSIVE StripSpaces(_)
StripSpaces(s) ==
    IF s = << >> THEN s
    ELSE IF Head(s) = " " THEN StripSpaces(Tail(s))
         ELSE IF s[Len(s)] = " " THEN StripSpaces(SubSeq(s, 1, Len(s) - 1))
              ELSE s

\* font.lower().replace("-", "").replace("mt", "").strip()
normalize_font(font) == StripSpaces(RemoveMt(RemoveHyphens(Lower(font))))

\* "Bold" in span["font"], "Italic" in span["font"]
IsBold(font) == IsSubstr(<< "B", "o", "l", "d" >>, font)
IsItalic(font) == IsSubstr(<< "I", "t", "a", "l", "i", "c" >>, font)

\* ------------------------------------------------------------------------
\* Python dicts
\* ------------------------------------------------------------------------

EmptyDict == << >>

Keys(d) == [i \in DOMAIN d |-> d[i].k]

KeySet(d) == { d[i].k : i \in DOMAIN d }

Has(d, k) == \E i \in DOMAIN d : d[i].k = k

Get(d, k) == d[CHOOSE i \in DOMAIN d : d[i].k = k].v

\* d[k] = v
Put(d, k, v) ==
    IF Has(d, k)
    THEN [d EXCEPT ![CHOOSE i \in DOMAIN d : d[i].k = k] = [k |-> k, v |-> v]]
    ELSE Append(d, [k |-> k, v |-> v])

\* d.setdefault(k, []).extend(vs)
Extend(d, k, vs) == Put(d, k, (IF Has(d, k) THEN Get(d, k) ELSE << >>) \o vs)

\* the dict as a mathematical map: insertion order forgotten
AsMap(d) == [k \in KeySet(d) |-> Get(d, k)]

\* ------------------------------------------------------------------------
\* Documents, as the parsing library exposes them
\*   pdf   = [is_pdf, opens, ifsc, pages]   pages: sequence of page
\*   page  = [readable, blocks]             get_text("dict") raises when
\*                                          readable is FALSE
\*   block = [lines |-> ...] for a text block, a record without "lines"
\*           for an image block
\*   line  = sequence of span
\*   span  = [text, bbox, font, size]       bbox = <<x0, y0, x1, y1>>
\* ------------------------------------------------------------------------

\* the occurrence dict built from a span (generate_templates.py)
OccurrenceAt(span, page_num) ==
    [ page   |-> page_num,
      x      |-> span.bbox[1],
      y      |-> span.bbox[2],
      width  |-> span.bbox[3] - span.bbox[1],
      height |-> span.bbox[4] - span.bbox[2],
      font   |-> span.font,
      size   |-> span.size,
      bold   |-> IsBold(span.font),
      italic |-> IsItalic(span.font) ]

\* the occurrence dict built from a span (detect_anomalies.py): no page
ObservedAt(span) ==
    [ x      |-> span.bbox[1],
      y      |-> span.bbox[2],
      width  |-> span.bbox[3] - span.bbox[1],
      height |-> span.bbox[4] - span.bbox[2],
      font   |-> span.font,
      size   |-> span.size,
      bold   |-> IsBold(span.font),
      italic |-> IsItalic(span.font) ]

\* for span in spans: if norm_keyword in re.sub(r'\W+', '', span["text"]).lower()
\* index of the first such span, 0 when there is none
FirstSpanWord(spans, norm_keyword) ==
    LET hits == { i \in DOMAIN spans : IsSubstr(norm_keyword, NormWord(spans[i].text)) }
    IN  IF hits = {} THEN 0 ELSE CHOOSE i \in hits : \A j \in hits : i <= j

\* the same scan with re.sub(r'[^A-Za-z0-9]', '', span["text"]).lower()
FirstSpanAlnum(spans, norm_field) ==
    LET hits == { i \in DOMAIN spans : IsSubstr(norm_field, NormAlnum(spans[i].text)) }
    IN  IF hits = {} THEN 0 ELSE CHOOSE i \in hits : \A j \in hits : i <= j

\* ---- src/src/generate_templates.py: find_field_occurrences ----

\* for keyword in field_keywords: ... (the only break leaves the span loop)
RECURSIVE ScanKeywords(_, _, _, _)
ScanKeywords(field_metadata, spans, page_num, keywords) ==
    IF keywords = << >> THEN field_metadata
    ELSE
      LET keyword      == Head(keywords)
          norm_keyword == NormWord(keyword)
          norm_line    == NormWord(JoinTexts(spans))
          i            == FirstSpanWord(spans, norm_keyword)
          after        ==
              IF IsSubstr(norm_keyword, norm_line) /\ i # 0
              THEN Extend(field_metadata, keyword,
                          << OccurrenceAt(spans[i], page_num) >>)
              ELSE field_metadata
      IN  ScanKeywords(after, spans, page_num, Tail(keywords))

\* for line in block["lines"]
RECURSIVE ScanLines(_, _, _, _)
ScanLines(field_metadata, lines, page_num, keywords) ==
    IF lines = << >> THEN field_metadata
    ELSE ScanLines(ScanKeywords(field_metadata, Head(lines), page_num, keywords),
                   Tail(lines), page_num, keywords)

\* for block in blocks: if "lines" not in block: continue
RECURSIVE ScanBlocks(_, _, _, _)
ScanBlocks(field_metadata, blocks, page_num, keywords) ==
    IF blocks = << >> THEN field_metadata
    ELSE
      LET block == Head(blocks)
          after == IF "lines" \in DOMAIN block
                   THEN ScanLines(field_metadata, block.lines, page_num, keywords)
                   ELSE field_metadata
      IN  ScanBlocks(after, Tail(blocks), page_num, keywords)

\* for page_num in range(len(pdf)), from page index page_num (0-based) on.
\* The result is [raised, field_metadata]: raised when get_text raised on a
\* page, field_metadata then being the local dict as it was at that moment.
RECURSIVE ScanPages(_, _, _, _)
ScanPages(field_metadata, pages, page_num, keywords) ==
    IF page_num >= Len(pages)
    THEN [raised |-> FALSE, field_metadata |-> field_metadata]
    ELSE
      LET page == pages[page_num + 1]
      IN  IF ~ page.readable
          THEN [raised |-> TRUE, field_metadata |-> field_metadata]
          ELSE ScanPages(ScanBlocks(field_metadata, page.blocks, page_num, keywords),
                         pages, page_num + 1, keywords)

find_field_occurrences(pdf, field_keywords) ==
    ScanPages(EmptyDict, pdf.pages, 0, field_keywords)

\* ---- src/generate_templates.py: find_field_occurrences (older script) ----

\* for span in line["spans"]: append an occurrence of every span of the line
OccurrencesOfLine(spans, page_num) ==
    [i \in DOMAIN spans |-> OccurrenceAt(spans[i], page_num)]

\* for keyword in field_keywords: ... break after the first matching keyword
RECURSIVE LegacyScanKeywords(_, _, _, _)
LegacyScanKeywords(field_metadata, spans, page_num, keywords) ==
    IF keywords = << >> THEN field_metadata
    ELSE
      LET keyword       == Head(keywords)
          clean_keyword == NormAlnum(keyword)
          clean_line    == NormAlnum(JoinTexts(spans))
      IN  IF IsSubstr(clean_keyword, clean_line)
          THEN IF spans = << >>
               THEN field_metadata
               ELSE Extend(field_metadata, keyword, OccurrencesOfLine(spans, page_num))
          ELSE LegacyScanKeywords(field_metadata, spans, page_num, Tail(keywords))

RECURSIVE LegacyScanLines(_, _, _, _)
LegacyScanLines(field_metadata, lines, page_num, keywords) ==
    IF lines = << >> THEN field_metadata
    ELSE LegacyScanLines(
             LegacyScanKeywords(field_metadata, Head(lines), page_num, keywords),
             Tail(lines), page_num, keywords)

RECURSIVE LegacyScanBlocks(_, _, _, _)
LegacyScanBlocks(field_metadata, blocks, page_num, keywords) ==
    IF blocks = << >> THEN field_metadata
    ELSE
      LET block == Head(blocks)
          after == IF "lines" \in DOMAIN block
                   THEN LegacyScanLines(field_metadata, block.lines, page_num, keywords)
                   ELSE field_metadata
      IN  LegacyScanBlocks(after, Tail(blocks), page_num, keywords)

RECURSIVE LegacyScanPages(_, _, _, _)
LegacyScanPages(field_metadata, pages, page_num, keywords) ==
    IF page_num >= Len(pages)
    THEN [raised |-> FALSE, field_metadata |-> field_metadata]
    ELSE
      LET page == pages[page_num + 1]
      IN  IF ~ page.readable
          THEN [raised |-> TRUE, field_metadata |-> field_metadata]
          ELSE LegacyScanPages(
                   LegacyScanBlocks(field_metadata, page.blocks, page_num, keywords),
                   pages, page_num + 1, keywords)

legacy_find_field_occurrences(pdf, field_keywords) ==
    LegacyScanPages(EmptyDict, pdf.pages, 0, field_keywords)

\* ---- src/src/detect_anomalies.py: extract_field_occurrences ----

\* ExtractScanFields with a plausible slip: occurrences.setdefault(field,
\* {...}), so that the first occurrence recorded for a field is kept
RECURSIVE ExtractScanFieldsKeepFirst(_, _, _)
ExtractScanFieldsKeepFirst(occurrences, spans, field_list) ==
    IF field_list = << >> THEN occurrences
    ELSE
      LET field      == Head(field_list)
          norm_field == NormAlnum(field)
          norm_line  == NormAlnum(JoinTexts(spans))
          i          == FirstSpanAlnum(spans, norm_field)
      IN  IF IsSubstr(norm_field, norm_line)
          THEN IF i # 0 /\ ~ Has(occurrences, field)
               THEN Put(occurrences, field, ObservedAt(spans[i]))
               ELSE occurrences
          ELSE ExtractScanFieldsKeepFirst(occurrences, spans, Tail(field_list))

\* for field in field_list: ... break after the first field found in the line
RECURSIVE ExtractScanFields(_, _, _)
ExtractScanFields(occurrences, spans, field_list) ==
    IF field_list = << >> THEN occurrences
    ELSE
      LET field      == Head(field_list)
          norm_field == NormAlnum(field)
          norm_line  == NormAlnum(JoinTexts(spans))
          i          == FirstSpanAlnum(spans, norm_field)
      IN  IF IsSubstr(norm_field, norm_line)
          THEN IF i # 0
               THEN Put(occurrences, field, ObservedAt(spans[i]))
               ELSE occurrences
          ELSE ExtractScanFields(occurrences, spans, Tail(field_list))

RECURSIVE ExtractScanLines(_, _, _)
ExtractScanLines(occurrences, lines, field_list) ==
    IF lines = << >> THEN occurrences
    ELSE ExtractScanLines(ExtractScanFields(occurrences, Head(lines), field_list),
                          Tail(lines), field_list)

RECURSIVE ExtractScanBlocks(_, _, _)
ExtractScanBlocks(occurrences, blocks, field_list) ==
    IF blocks = << >> THEN occurrences
    ELSE
      LET block == Head(blocks)
          after == IF "lines" \in DOMAIN block
                   THEN ExtractScanLines(occurrences, block.lines, field_list)
                   ELSE occurrences
      IN  ExtractScanBlocks(after, Tail(blocks), field_list)

\* fitz.open raises on a file that does not open, doc[0] on a document
\* without pages, get_text on an unreadable page
ExtractRaises(pdf) ==
    \/ ~ pdf.opens
    \/ pdf.pages = << >>
    \/ ~ pdf.pages[1].readable

\* try: ... return occurrences / except Exception: return {}
extract_field_occurrences(pdf, field_list) ==
    IF ExtractRaises(pdf)
    THEN EmptyDict
    ELSE ExtractScanBlocks(EmptyDict, pdf.pages[1].blocks, field_list)

\* ------------------------------------------------------------------------
\* Template building
\* ------------------------------------------------------------------------

\* MARGIN = 15: pixels around the median
MARGIN == U(15)

\* the literal margins of width, height and font size: 5, 3 and 0.5
WIDTH_MARGIN == U(5)
HEIGHT_MARGIN == U(3)
SIZE_MARGIN == H(1)

\* [s["x"] for s in spans] and the like
Column(spans, key) == [i \in DOMAIN spans |-> spans[i][key]]

\* median with a plausible slip: the data are not sorted first
medianUnsorted(data) ==
    LET n == Len(data)
    IN  IF n % 2 = 1
        THEN data[(n + 1) \div 2]
        ELSE (data[n \div 2] + data[n \div 2 + 1]) \div 2

\* statistics.median: the middle of the sorted data, the mean of the two
\* middle values when their number is even
median(data) ==
    LET sorted == SortSeq(data, LAMBDA a, b : a < b)
        n      == Len(sorted)
    IN  IF n % 2 = 1
        THEN sorted[(n + 1) \div 2]
        ELSE (sorted[n \div 2] + sorted[n \div 2 + 1]) \div 2

\* sorted(list(set(...)))
RECURSIVE SortedList(_)
SortedList(S) ==
    IF S = {} THEN << >>
    ELSE LET least == CHOOSE a \in S : \A b \in S : a <= b
         IN  << least >> \o SortedList(S \ {least})

\* any(s[key] for s in spans)
AnyFlag(spans, key) == \E i \in DOMAIN spans : spans[i][key]

\* FieldTemplate with a plausible slip: the font names are stored as they
\* are, not normalized
FieldTemplateRawFonts(spans) ==
    LET x_med    == median(Column(spans, "x"))
        y_med    == median(Column(spans, "y"))
        w_med    == median(Column(spans, "width"))
        h_med    == median(Column(spans, "height"))
        size_med == median(Column(spans, "size"))
    IN  [ position_range |->
              [ x      |-> << x_med - MARGIN, x_med + MARGIN >>,
                y      |-> << y_med - MARGIN, y_med + MARGIN >>,
                width  |-> << w_med - WIDTH_MARGIN, w_med + WIDTH_MARGIN >>,
                height |-> << h_med - HEIGHT_MARGIN, h_med + HEIGHT_MARGIN >> ],
          font_size_range |-> << size_med - SIZE_MARGIN, size_med + SIZE_MARGIN >>,
          fonts  |-> { spans[i].font : i \in DOMAIN spans },
          bold   |-> AnyFlag(spans, "bold"),
          italic |-> AnyFlag(spans, "italic"),
          pages  |-> SortedList({ spans[i].page : i \in DOMAIN spans }) ]

\* template[field] = {...}.  fonts is list(set(...)): a list without
\* duplicates whose order is the set's iteration order, read only through
\* "in"; it is kept as the set.
FieldTemplate(spans) ==
    LET x_med    == median(Column(spans, "x"))
        y_med    == median(Column(spans, "y"))
        w_med    == median(Column(spans, "width"))
        h_med    == median(Column(spans, "height"))
        size_med == median(Column(spans, "size"))
    IN  [ position_range |->
              [ x      |-> << x_med - MARGIN, x_med + MARGIN >>,
                y      |-> << y_med - MARGIN, y_med + MARGIN >>,
                width  |-> << w_med - WIDTH_MARGIN, w_med + WIDTH_MARGIN >>,
                height |-> << h_med - HEIGHT_MARGIN, h_med + HEIGHT_MARGIN >> ],
          font_size_range |-> << size_med - SIZE_MARGIN, size_med + SIZE_MARGIN >>,
          fonts  |-> { normalize_font(spans[i].font) : i \in DOMAIN spans },
          bold   |-> AnyFlag(spans, "bold"),
          italic |-> AnyFlag(spans, "italic"),
          pages  |-> SortedList({ spans[i].page : i \in DOMAIN spans }) ]

\* BuildFrom with a plausible slip: a field with a single occurrence is
\* skipped like one with none
RECURSIVE BuildFromSkippingSingle(_, _, _)
BuildFromSkippingSingle(template, field_meta, i) ==
    IF i > Len(field_meta) THEN template
    ELSE
      LET field == field_meta[i].k
          spans == field_meta[i].v
      IN  IF Len(spans) < 2
          THEN BuildFromSkippingSingle(template, field_meta, i + 1)
          ELSE BuildFromSkippingSingle(Put(template, field, FieldTemplate(spans)),
                                       field_meta, i + 1)

\* for field, spans in field_meta.items(): if not spans: continue ...
RECURSIVE BuildFrom(_, _, _)
BuildFrom(template, field_meta, i) ==
    IF i > Len(field_meta) THEN template
    ELSE
      LET field == field_meta[i].k
          spans == field_meta[i].v
      IN  IF spans = << >>
          THEN BuildFrom(template, field_meta, i + 1)
          ELSE BuildFrom(Put(template, field, FieldTemplate(spans)), field_meta, i + 1)

build_position_range_metadata(field_meta) == BuildFrom(EmptyDict, field_meta, 1)

\* ---- src/generate_templates.py: average_field_metadata (older script) ----

RECURSIVE SumSeq(_)
SumSeq(s) == IF s = << >> THEN 0 ELSE Head(s) + SumSeq(Tail(s))

RECURSIVE Gcd(_, _)
Gcd(a, b) == IF b = 0 THEN a ELSE Gcd(b, a % b)

\* the fraction num / den in lowest terms (den > 0, num >= 0)
Fraction(num, den) ==
    LET g == Gcd(num, den)
    IN  [num |-> num \div g, den |-> den \div g]

\* sum(...) / len(spans), in whole units: the data count quarters
Mean(data) == Fraction(SumSeq(data), 4 * Len(data))

\* round(size, 2), as a count of hundredths; a tie goes to the even count
RoundHundredths(q) ==
    LET scaled == 100 * q.num
        lo     == scaled \div q.den
        twice  == 2 * (scaled % q.den)
    IN  IF twice < q.den THEN lo
        ELSE IF twice > q.den THEN lo + 1
             ELSE IF lo % 2 = 0 THEN lo ELSE lo + 1

\* averaged_template[field] = {...}: fonts are the raw font names
AveragedField(spans) ==
    [ avg_position |->
          [ x      |-> Mean(Column(spans, "x")),
            y      |-> Mean(Column(spans, "y")),
            width  |-> Mean(Column(spans, "width")),
            height |-> Mean(Column(spans, "height")) ],
      font_size |-> RoundHundredths(Mean(Column(spans, "size"))),
      fonts  |-> { spans[i].font : i \in DOMAIN spans },
      bold   |-> AnyFlag(spans, "bold"),
      italic |-> AnyFlag(spans, "italic") ]

RECURSIVE AverageFrom(_, _, _)
AverageFrom(averaged_template, field_meta, i) ==
    IF i > Len(field_meta) THEN averaged_template
    ELSE
      LET field == field_meta[i].k
          spans == field_meta[i].v
      IN  IF spans = << >>
          THEN AverageFrom(averaged_template, field_meta, i + 1)
          ELSE AverageFrom(Put(averaged_template, field, AveragedField(spans)),
                           field_meta, i + 1)

average_field_metadata(field_meta) == AverageFrom(EmptyDict, field_meta, 1)

\* ------------------------------------------------------------------------
\* Template comparison (src/src/detect_anomalies.py)
\* ------------------------------------------------------------------------

\* POSITION_THRESHOLD = 30  # pixels
POSITION_THRESHOLD == U(30)

\* MissingAnomaly with a plausible slip: the wrong severity
MissingAnomalyMinor(field) ==
    [ field |-> field, type |-> "minor",
      reason |-> "Field missing from document", issues |-> << >> ]

MissingAnomaly(field) ==
    [ field |-> field, type |-> "major",
      reason |-> "Field missing from document", issues |-> << >> ]

MinorAnomaly(field, reason, issues) ==
    [ field |-> field, type |-> "minor", reason |-> reason, issues |-> issues ]

\* PositionFails with a plausible slip: the bounds are exclusive
PositionFailsExclusive(expected, act) ==
    LET xr == expected.position_range.x
        yr == expected.position_range.y
    IN  ~ ( /\ xr[1] - POSITION_THRESHOLD < act.x
            /\ act.x < xr[2] + POSITION_THRESHOLD
            /\ yr[1] - POSITION_THRESHOLD < act.y
            /\ act.y < yr[2] + POSITION_THRESHOLD )

\* not (xr[0] - T <= act["x"] <= xr[1] + T and yr[0] - T <= act["y"] <= yr[1] + T)
PositionFails(expected, act) ==
    LET xr == expected.position_range.x
        yr == expected.position_range.y
    IN  ~ ( /\ xr[1] - POSITION_THRESHOLD <= act.x
            /\ act.x <= xr[2] + POSITION_THRESHOLD
            /\ yr[1] - POSITION_THRESHOLD <= act.y
            /\ act.y <= yr[2] + POSITION_THRESHOLD )

\* not (size_range[0] <= act["size"] <= size_range[1])
FontSizeFails(expected, act) ==
    LET size_range == expected.font_size_range
    IN  ~ (size_range[1] <= act.size /\ act.size <= size_range[2])

\* style_issues, in the order font, bold, italic
StyleIssues(expected, act) ==
    LET normalized_font    == normalize_font(act.font)
        font_name_mismatch == normalized_font \notin expected.fonts
        bold_mismatch      == act.bold # expected.bold
        italic_mismatch    == act.italic # expected.italic
    IN  (IF font_name_mismatch THEN << "font" >> ELSE << >>)
        \o (IF bold_mismatch THEN << "bold" >> ELSE << >>)
        \o (IF italic_mismatch THEN << "italic" >> ELSE << >>)

\* FieldAnomalies with a plausible slip: the checks are chained with elif,
\* so that only the first failing one reports
FieldAnomaliesFirstOnly(field, expected, act) ==
    IF PositionFails(expected, act)
    THEN << MinorAnomaly(field, "Position out of expected range", << >>) >>
    ELSE IF FontSizeFails(expected, act)
         THEN << MinorAnomaly(field, "Font size mismatch", << >>) >>
         ELSE IF StyleIssues(expected, act) # << >>
              THEN << MinorAnomaly(field, "Style mismatch", StyleIssues(expected, act)) >>
              ELSE << >>

\* the anomalies appended for a field that is in actual
FieldAnomalies(field, expected, act) ==
    (IF PositionFails(expected, act)
     THEN << MinorAnomaly(field, "Position out of expected range", << >>) >>
     ELSE << >>)
    \o (IF FontSizeFails(expected, act)
        THEN << MinorAnomaly(field, "Font size mismatch", << >>) >>
        ELSE << >>)
    \o (IF StyleIssues(expected, act) # << >>
        THEN << MinorAnomaly(field, "Style mismatch", StyleIssues(expected, act)) >>
        ELSE << >>)

\* the keys compare_with_template reads in expected, for a field in actual
ReadKeys == { "position_range", "font_size_range", "fonts", "bold", "italic" }

\* expected[...] raises KeyError on a key the template entry lacks
LookupRaises(expected) ==
    \/ ~ (ReadKeys \subseteq DOMAIN expected)
    \/ ~ ({"x", "y"} \subseteq DOMAIN expected.position_range)

\* one iteration of: for field, expected in template.items()
\* state = [raised, anomalies]
CompareField(state, field, expected, actual) ==
    IF ~ Has(actual, field)
    THEN [state EXCEPT !.anomalies = Append(@, MissingAnomaly(field))]
    ELSE IF LookupRaises(expected)
         THEN [state EXCEPT !.raised = TRUE]
         ELSE [state EXCEPT !.anomalies =
                   @ \o FieldAnomalies(field, expected, Get(actual, field))]

RECURSIVE CompareFrom(_, _, _, _)
CompareFrom(state, template, actual, i) ==
    IF i > Len(template) \/ state.raised THEN state
    ELSE CompareFrom(CompareField(state, template[i].k, template[i].v, actual),
                     template, actual, i + 1)

\* [raised, anomalies]: raised when a KeyError left the function, anomalies
\* being the returned list otherwise
compare_with_template(template, actual) ==
    CompareFrom([raised |-> FALSE, anomalies |-> << >>], template, actual, 1)

\* ------------------------------------------------------------------------
\* Bank detection (src/src/detect_anomalies.py)
\* ------------------------------------------------------------------------

None == "None"

\* extract_first_page_text then extract_first_ifsc: the text is "" when the
\* file does not open, has no page, or its first page cannot be read, and
\* no IFSC code is found in "".  pdf.ifsc is the code the patterns find in
\* the first page's text (None when they find none).
DetectIfsc(pdf) ==
    IF ~ pdf.opens \/ pdf.pages = << >> \/ ~ pdf.pages[1].readable
    THEN None
    ELSE pdf.ifsc

IfscPrefixes ==
    [ HDFC |-> "hdfc", SBIN |-> "sbi", ICIC |-> "icici", CNRB |-> "canara",
      IBKL |-> "idbi", IDIB |-> "indian", UTIB |-> "axis", BARB |-> "bob",
      FDRL |-> "federal", TMBL |-> "tmb", UBIN |-> "union",
      CIUB |-> "city_union", IDFB |-> "idfc", DLXB |-> "dhanlaxmi",
      PUNB |-> "punjab_national" ]

bank_from_ifsc_prefix(ifsc) ==
    IF ifsc = None THEN "others"
    ELSE LET prefix == SubSeq(ifsc, 1, 4)
         IN  IF prefix \in DOMAIN IfscPrefixes THEN IfscPrefixes[prefix]
             ELSE "others"

\* ------------------------------------------------------------------------
\* The documents of the model
\* ------------------------------------------------------------------------

Arial          == << "A", "r", "i", "a", "l" >>
ArialMT        == << "A", "r", "i", "a", "l", "M", "T" >>
ArialBoldMT    == << "A", "r", "i", "a", "l", "-", "B", "o", "l", "d", "M", "T" >>
ArialItalicMT  == << "A", "r", "i", "a", "l", "-", "I", "t", "a", "l", "i", "c",
                     "M", "T" >>
Times          == << "T", "i", "m", "e", "s" >>

KwDate    == << "D", "a", "t", "e" >>
KwAccount == << "A", "/", "c", " ", "N", "o" >>

TxDate      == << "D", "a", "t", "e" >>
TxDateUpper == << "D", "A", "T", "E", ":" >>
TxAccount   == << "A", "/", "C", " ", "N", "o", "." >>
TxAcc       == << "A", "/", "c" >>
TxNo        == << "N", "o" >>
TxValue     == << "V", "a", "l", "u", "e" >>
TxName      == << "N", "a", "m", "e" >>

\* a span of text at (x, y), w wide and h high; x, y, w, h in whole units,
\* size in half units
Span(text, x, y, w, h, font, size) ==
    [ text |-> text, bbox |-> << U(x), U(y), U(x + w), U(y + h) >>,
      font |-> font, size |-> H(size) ]

TextBlock(lines) == [lines |-> lines]

ImageBlock == [image |-> "png"]

Page(blocks) == [readable |-> TRUE, blocks |-> blocks]

BrokenPage == [readable |-> FALSE, blocks |-> << >>]

Pdf(ifsc, pages) == [is_pdf |-> TRUE, opens |-> TRUE, ifsc |-> ifsc, pages |-> pages]

\* the files a bank folder may hold and a validation may be given
Files ==
    << \* 1: one page, both fields
       Pdf("HDFC0001234",
           << Page(<< TextBlock(<<
                  << Span(TxDate, 100, 50, 40, 10, Arial, 20) >>,
                  << Span(TxAccount, 300, 50, 60, 10, ArialBoldMT, 20) >> >>) >>) >>),
       \* 2: two pages, the date on both; the account number split over spans
       Pdf("HDFC0005678",
           << Page(<< ImageBlock,
                      TextBlock(<<
                  << Span(TxValue, 70, 52, 36, 10, ArialMT, 21),
                     Span(TxDateUpper, 110, 52, 44, 10, ArialMT, 21) >>,
                  << Span(TxAcc, 300, 52, 30, 10, Arial, 20),
                     Span(TxNo, 334, 52, 20, 10, Arial, 20) >> >>) >>),
              Page(<< TextBlock(<<
                  << Span(TxDate, 100, 40, 40, 10, Arial, 20) >> >>) >>) >>),
       \* 3: the date far from where the others have it, in another style
       Pdf("SBIN0000042",
           << Page(<< TextBlock(<<
                  << Span(TxDate, 200, 150, 52, 14, ArialItalicMT, 24) >>,
                  << Span(TxName, 20, 20, 40, 10, Times, 20) >> >>) >>) >>),
       \* 4: a file that does not open
       [ is_pdf |-> TRUE, opens |-> FALSE, ifsc |-> "HDFC0009999", pages |-> << >> ],
       \* 5: the date and the account number on one line; the second page
       \* cannot be read
       Pdf("HDFC0004321",
           << Page(<< TextBlock(<<
                  << Span(TxDate, 102, 50, 40, 10, Arial, 20),
                     Span(TxAccount, 302, 50, 60, 10, ArialBoldMT, 20) >> >>) >>),
              BrokenPage >>),
       \* 6: not a .pdf file name
       [ is_pdf |-> FALSE, opens |-> TRUE, ifsc |-> None,
         pages |-> << Page(<< TextBlock(<<
                  << Span(TxDate, 10, 10, 40, 10, Times, 20) >> >>) >>) >> ] >>

FileIds == DOMAIN Files

\* the field list of the bank (fields/<bank>.txt)
FieldLists == { << KwDate, KwAccount >>, << KwAccount, KwDate >> }

\* the bank folders templates are generated for
Banks == { "hdfc", "others" }

\* the most files a bank folder holds
MaxDocs == 3

\* ------------------------------------------------------------------------
\* State
\* ------------------------------------------------------------------------

VARIABLES
    script,          \* which generation script runs: "current" is
                     \* src/src/generate_templates.py, "legacy" is
                     \* src/generate_templates.py
    bank_folder,     \* the bank whose folder is processed
    field_list,      \* load_field_list(fields_txt_path)
    folder,          \* the files of the bank folder
    doc,             \* the document the matchers are applied to (SpecMatch)
    todo,            \* the files os.listdir has still to yield
    order,           \* the files in the order os.listdir yielded them
    all_metadata,    \* process_bank_folder's accumulator
    errors,          \* the files whose processing printed "Error reading"
    templates,       \* templates/template_<bank>.json, per bank
    gen_pc,          \* "scan", then "done" once process_bank_folder returned
    target,          \* the file validate_pdf was last given (0: none yet)
    actual_metadata, \* validate_pdf's actual_metadata
    result,          \* what validate_pdf did
    vpc,             \* per concurrent validation: "idle", "run" or "done"
    vcursor,         \* per concurrent validation: template entries done
    vfile,           \* per concurrent validation: the file it validates
    vactual,         \* per concurrent validation: its actual map
    vanomalies       \* per concurrent validation: its anomalies list

vars ==
    << script, bank_folder, field_list, folder, doc, todo, order, all_metadata,
       errors, templates, gen_pc, target, actual_metadata, result,
       vpc, vcursor, vfile, vactual, vanomalies >>

genVars == << all_metadata, errors, templates, gen_pc, todo, order >>

valVars == << target, actual_metadata, result >>

concVars == << vpc, vcursor, vfile, vactual, vanomalies >>

setupVars == << script, bank_folder, field_list, folder, doc >>

\* no template file for the bank
NoTemplate == "NoTemplate"

\* every bank validate_pdf can detect
AllBanks == { IfscPrefixes[p] : p \in DOMAIN IfscPrefixes } \cup { "others" }

\* validate_pdf has not run
NotRun == [kind |-> "not run"]

\* concurrent validations (none outside SpecConcurrent)
NoValidators == << >>

\* no document under the matchers (outside SpecMatch)
NoDoc == "NoDoc"

\* ------------------------------------------------------------------------
\* Template generation: process_bank_folder
\* ------------------------------------------------------------------------

\* for field, occurrences in pdf_meta.items():
\*     all_metadata.setdefault(field, []).extend(occurrences)
RECURSIVE MergeFrom(_, _, _)
MergeFrom(accumulated, pdf_meta, i) ==
    IF i > Len(pdf_meta) THEN accumulated
    ELSE MergeFrom(Extend(accumulated, pdf_meta[i].k, pdf_meta[i].v), pdf_meta, i + 1)

merge(accumulated, pdf_meta) == MergeFrom(accumulated, pdf_meta, 1)

\* the except branch is taken: fitz.open or a page's get_text raised
Raises(pdf) ==
    ~ pdf.opens \/ \E p \in DOMAIN pdf.pages : ~ pdf.pages[p].readable

\* process_file with a plausible slip: the occurrences are merged into the
\* accumulator as they are found, so that those found before a page raised
\* stay in it
process_file_partial(accumulated, pdf, keywords) ==
    IF ~ pdf.is_pdf THEN accumulated
    ELSE IF ~ pdf.opens THEN accumulated
         ELSE merge(accumulated, find_field_occurrences(pdf, keywords).field_metadata)

\* one iteration of the loop over os.listdir (src/src/generate_templates.py):
\* the accumulator after it
process_file(accumulated, pdf, keywords) ==
    IF ~ pdf.is_pdf THEN accumulated
    ELSE IF ~ pdf.opens THEN accumulated
         ELSE LET found == find_field_occurrences(pdf, keywords)
              IN  IF found.raised THEN accumulated
                  ELSE merge(accumulated, found.field_metadata)

\* the same iteration in src/generate_templates.py
legacy_process_file(accumulated, pdf, keywords) ==
    IF ~ pdf.is_pdf THEN accumulated
    ELSE IF ~ pdf.opens THEN accumulated
         ELSE LET found == legacy_find_field_occurrences(pdf, keywords)
              IN  IF found.raised THEN accumulated
                  ELSE merge(accumulated, found.field_metadata)

\* os.listdir yields file f next
ProcessFile(f) ==
    /\ gen_pc = "scan"
    /\ script = "current"
    /\ f \in todo
    /\ todo' = todo \ {f}
    /\ order' = Append(order, f)
    /\ all_metadata' = process_file(all_metadata, Files[f], field_list)
    /\ errors' = IF Files[f].is_pdf /\ Raises(Files[f]) THEN errors \cup {f} ELSE errors
    /\ UNCHANGED << templates, gen_pc >>
    /\ UNCHANGED << setupVars, valVars, concVars >>

LegacyProcessFile(f) ==
    /\ gen_pc = "scan"
    /\ script = "legacy"
    /\ f \in todo
    /\ todo' = todo \ {f}
    /\ order' = Append(order, f)
    /\ all_metadata' = legacy_process_file(all_metadata, Files[f], field_list)
    /\ errors' = IF Files[f].is_pdf /\ Raises(Files[f]) THEN errors \cup {f} ELSE errors
    /\ UNCHANGED << templates, gen_pc >>
    /\ UNCHANGED << setupVars, valVars, concVars >>

\* if not all_metadata: return
ReturnNoMetadata ==
    /\ gen_pc = "scan"
    /\ script = "current"
    /\ todo = {}
    /\ all_metadata = EmptyDict
    /\ gen_pc' = "done"
    /\ UNCHANGED << all_metadata, errors, templates, todo, order >>
    /\ UNCHANGED << setupVars, valVars, concVars >>

\* final_template = build_position_range_metadata(all_metadata); json.dump
SaveTemplate ==
    /\ gen_pc = "scan"
    /\ script = "current"
    /\ todo = {}
    /\ all_metadata # EmptyDict
    /\ templates' = [templates EXCEPT
                       ![bank_folder] = build_position_range_metadata(all_metadata)]
    /\ gen_pc' = "done"
    /\ UNCHANGED << all_metadata, errors, todo, order >>
    /\ UNCHANGED << setupVars, valVars, concVars >>

\* averaged = average_field_metadata(all_metadata); json.dump, whatever
\* all_metadata holds
LegacySaveTemplate ==
    /\ gen_pc = "scan"
    /\ script = "legacy"
    /\ todo = {}
    /\ templates' = [templates EXCEPT
                       ![bank_folder] = average_field_metadata(all_metadata)]
    /\ gen_pc' = "done"
    /\ UNCHANGED << all_metadata, errors, todo, order >>
    /\ UNCHANGED << setupVars, valVars, concVars >>

\* ------------------------------------------------------------------------
\* Validation of one document: validate_pdf
\* ------------------------------------------------------------------------

\* what validate_pdf does on pdf with the template files store:
\*   [kind |-> "none"]    it returned None (no template file for the bank)
\*   [kind |-> "raised"]  compare_with_template's KeyError left validate_pdf
\*   [kind |-> "report"]  it returned the dict with the anomalies
validate_pdf(pdf, store) ==
    LET ifsc == DetectIfsc(pdf)
        bank == bank_from_ifsc_prefix(ifsc)
    IN  IF store[bank] = NoTemplate
        THEN [kind |-> "none", actual |-> EmptyDict]
        ELSE
          LET template == store[bank]
              actual   == extract_field_occurrences(pdf, Keys(template))
              compared == compare_with_template(template, actual)
          IN  IF compared.raised
              THEN [kind |-> "raised", actual |-> actual]
              ELSE [ kind         |-> "report",
                     actual       |-> actual,
                     bank         |-> bank,
                     ifsc         |-> ifsc,
                     anomalies    |-> compared.anomalies,
                     fields_found |-> Len(actual),
                     total_fields |-> Len(template) ]

ValidatePdf(f) ==
    /\ gen_pc = "done"
    /\ target = 0
    /\ LET outcome == validate_pdf(Files[f], templates)
       IN  /\ target' = f
           /\ actual_metadata' = outcome.actual
           /\ result' = [k \in DOMAIN outcome \ {"actual"} |-> outcome[k]]
    /\ UNCHANGED << setupVars, genVars, concVars >>

\* ------------------------------------------------------------------------
\* Specification: one bank folder is processed, then a document validated
\* ------------------------------------------------------------------------

Folders == { S \in SUBSET FileIds : 1 <= Cardinality(S) /\ Cardinality(S) <= MaxDocs }

Init ==
    /\ script \in { "current", "legacy" }
    /\ bank_folder \in Banks
    /\ field_list \in FieldLists
    /\ folder \in Folders
    /\ doc = NoDoc
    /\ todo = folder
    /\ order = << >>
    /\ all_metadata = EmptyDict
    /\ errors = {}
    /\ templates = [b \in AllBanks |-> NoTemplate]
    /\ gen_pc = "scan"
    /\ target = 0
    /\ actual_metadata = EmptyDict
    /\ result = NotRun
    /\ vpc = NoValidators
    /\ vcursor = NoValidators
    /\ vfile = NoValidators
    /\ vactual = NoValidators
    /\ vanomalies = NoValidators

Next ==
    \/ \E f \in FileIds : ProcessFile(f)
    \/ \E f \in FileIds : LegacyProcessFile(f)
    \/ ReturnNoMetadata
    \/ SaveTemplate
    \/ LegacySaveTemplate
    \/ \E f \in FileIds : ValidatePdf(f)

Spec == Init /\ [][Next]_vars

\* ------------------------------------------------------------------------
\* Specification SpecCompare: the accumulator is filled one occurrence at a
\* time, the template is built from it, and one observed map is compared
\* ------------------------------------------------------------------------

\* the most occurrences accumulated before the template is built
MaxOcc == 2

\* occurrences the matcher may hand to the accumulator: x is 100, 130 or
\* 192, y is 50 or 142, the size 10, 10.5 or 12, so that two of them may lie
\* within the template's tolerance of their median or outside it
TrainOccs ==
    { OccurrenceAt(Span(TxDate, 100, 50, 40, 10, Arial, 20), 0),
      OccurrenceAt(Span(TxDate, 130, 50, 40, 10, ArialMT, 21), 0),
      OccurrenceAt(Span(TxDate, 192, 50, 40, 10, ArialItalicMT, 20), 1),
      OccurrenceAt(Span(TxDate, 100, 142, 60, 12, ArialBoldMT, 24), 0) }

\* positions (in half units) around the bounds the template of one
\* occurrence at (100, 50) accepts: x in [55, 145], y in [5, 95]
ObsPositions ==
    { << 109, 100 >>, << 110, 100 >>, << 290, 100 >>, << 291, 100 >>,
      << 200, 9 >>, << 200, 10 >>, << 200, 190 >>, << 200, 191 >>,
      << 109, 191 >> }

\* font sizes (in half units): the bounds of the range [9.5, 10.5], and 11
ObsSizes == { 19, 21, 22 }

ObsFonts == { Arial, ArialBoldMT, ArialItalicMT }

\* widths and heights (in whole units)
ObsExtents == { << 40, 10 >>, << 90, 30 >> }

\* the occurrence dict of a span as extract_field_occurrences builds it
ObsOccs ==
    { ObservedAt([ text |-> TxDate,
                   bbox |-> << H(p[1]), H(p[2]), H(p[1]) + U(e[1]), H(p[2]) + U(e[2]) >>,
                   font |-> f, size |-> H(z) ]) :
        p \in ObsPositions, z \in ObsSizes, f \in ObsFonts, e \in ObsExtents }

AccountObs ==
    { ObservedAt(Span(TxAccount, 100, 50, 40, 10, Arial, 20)) }

\* the observed maps compared: each field absent or present
ObservedMaps ==
    { d \o a : d \in { << >> } \cup { << [k |-> KwDate, v |-> o] >> : o \in ObsOccs },
               a \in { << >> } \cup { << [k |-> KwAccount, v |-> o] >> : o \in AccountObs } }

\* an occurrence of a training document, as observed at validation
Observed(o) == [key \in DOMAIN o \ {"page"} |-> o[key]]

\* the occurrences accumulated, all fields together
RECURSIVE CountFrom(_, _)
CountFrom(field_meta, i) ==
    IF i > Len(field_meta) THEN 0
    ELSE Len(field_meta[i].v) + CountFrom(field_meta, i + 1)

\* merge of the batch {field: [o]}
Accumulate(field, o) ==
    /\ gen_pc = "scan"
    /\ CountFrom(all_metadata, 1) < MaxOcc
    /\ all_metadata' = merge(all_metadata, << [k |-> field, v |-> << o >>] >>)
    /\ UNCHANGED << errors, templates, gen_pc, todo, order >>
    /\ UNCHANGED << setupVars, valVars, concVars >>

\* build_position_range_metadata(all_metadata)
Synthesize ==
    /\ gen_pc = "scan"
    /\ templates' = [templates EXCEPT
                       ![bank_folder] = build_position_range_metadata(all_metadata)]
    /\ gen_pc' = "done"
    /\ UNCHANGED << all_metadata, errors, todo, order >>
    /\ UNCHANGED << setupVars, valVars, concVars >>

\* compare_with_template(template, actual)
Compare(actual) ==
    /\ gen_pc = "done"
    /\ result = NotRun
    /\ LET compared == compare_with_template(templates[bank_folder], actual)
       IN  result' = IF compared.raised
                     THEN [kind |-> "raised"]
                     ELSE [kind |-> "compared", anomalies |-> compared.anomalies]
    /\ actual_metadata' = actual
    /\ UNCHANGED target
    /\ UNCHANGED << setupVars, genVars, concVars >>

\* the observed maps {field: o}, o an accumulated occurrence of field
SelfMaps ==
    UNION { { << [k |-> all_metadata[i].k, v |-> Observed(all_metadata[i].v[j])] >> :
                j \in DOMAIN all_metadata[i].v } : i \in DOMAIN all_metadata }

InitCompare ==
    /\ script = "current"
    /\ bank_folder = "hdfc"
    /\ field_list = << KwDate, KwAccount >>
    /\ folder = {}
    /\ doc = NoDoc
    /\ todo = {}
    /\ order = << >>
    /\ all_metadata = EmptyDict
    /\ errors = {}
    /\ templates = [b \in AllBanks |-> NoTemplate]
    /\ gen_pc = "scan"
    /\ target = 0
    /\ actual_metadata = EmptyDict
    /\ result = NotRun
    /\ vpc = NoValidators
    /\ vcursor = NoValidators
    /\ vfile = NoValidators
    /\ vactual = NoValidators
    /\ vanomalies = NoValidators

NextCompare ==
    \/ \E field \in { KwDate, KwAccount }, o \in TrainOccs : Accumulate(field, o)
    \/ Synthesize
    \/ \E actual \in ObservedMaps : Compare(actual)
    \/ \E actual \in SelfMaps : Compare(actual)

SpecCompare == InitCompare /\ [][NextCompare]_vars

\* ------------------------------------------------------------------------
\* Properties of synthesis and comparison (SpecCompare)
\* ------------------------------------------------------------------------

\* the template compared against
Template == templates[bank_folder]

\* a comparison returned its anomalies list
Compared == result.kind = "compared"

\* the anomalies of the result that name field, in order
AnomaliesOf(field) == SelectSeq(result.anomalies, LAMBDA a : a.field = field)

\* how many of them have this reason
CountReason(field, reason) ==
    Cardinality({ i \in DOMAIN AnomaliesOf(field) : AnomaliesOf(field)[i].reason = reason })

\* the comparison was of {field: o} with o one of field's accumulated
\* occurrences, against the template built from that one field
SelfCompared ==
    /\ Compared
    /\ Len(all_metadata) = 1
    /\ actual_metadata \in SelfMaps

AbsDiff(a, b) == IF a >= b THEN a - b ELSE b - a

\* o lies within the template's tolerance of the occurrences O it is from:
\* x and y within 45 of their medians, the size within 0.5 of its median,
\* bold and italic equal to the OR of the flags over O
WithinSpread(o, O) ==
    /\ AbsDiff(o.x, median(Column(O, "x"))) <= MARGIN + POSITION_THRESHOLD
    /\ AbsDiff(o.y, median(Column(O, "y"))) <= MARGIN + POSITION_THRESHOLD
    /\ AbsDiff(o.size, median(Column(O, "size"))) <= SIZE_MARGIN
    /\ o.bold = AnyFlag(O, "bold")
    /\ o.italic = AnyFlag(O, "italic")

\* C1, as stated: comparing {field: o}, o any occurrence the template of
\* field was built from, reports no anomaly for field.
C1_SelfConsistency ==
    SelfCompared => AnomaliesOf(actual_metadata[1].k) = << >>

\* C1, amended: comparing {field: o}, o an occurrence the template of field
\* was built from, reports no anomaly for field exactly when o lies within
\* the tolerance around the medians and has the template's style flags (as
\* every o of a one-occurrence list does); the font name of o is never
\* reported as a mismatch.
C1_SelfConsistencyWithinSpread ==
    SelfCompared =>
        LET field == actual_metadata[1].k
            o     == actual_metadata[1].v
            O     == all_metadata[1].v
        IN  /\ (AnomaliesOf(field) = << >>) <=> WithinSpread(o, O)
            /\ Len(O) = 1 => AnomaliesOf(field) = << >>
            /\ \A i \in DOMAIN AnomaliesOf(field) :
                   \A j \in DOMAIN AnomaliesOf(field)[i].issues :
                       AnomaliesOf(field)[i].issues[j] # "font"

\* C1 witness: an occurrence of a list of two with different x, sizes and
\* font names is compared and nothing is reported
C1_Witness ==
    /\ SelfCompared
    /\ Len(all_metadata[1].v) = 2
    /\ all_metadata[1].v[1].x # all_metadata[1].v[2].x
    /\ all_metadata[1].v[1].size # all_metadata[1].v[2].size
    /\ all_metadata[1].v[1].font # all_metadata[1].v[2].font
    /\ result.anomalies = << >>

\* an occurrence the template was built from is reported for its position,
\* and one for its font size
SelfPositionReported ==
    /\ SelfCompared
    /\ CountReason(actual_metadata[1].k, "Position out of expected range") = 1

SelfSizeReported ==
    /\ SelfCompared
    /\ CountReason(actual_metadata[1].k, "Font size mismatch") = 1

\* C2: a template field with no entry in the observed map yields exactly one
\* anomaly, the major "Field missing from document", and nothing else; and
\* every major anomaly is the one of a template field absent from the
\* observed map.
C2_MissingFieldExclusivity ==
    Compared =>
        /\ \A field \in KeySet(Template) :
               ~ Has(actual_metadata, field) =>
                   AnomaliesOf(field) =
                       << [ field |-> field, type |-> "major",
                            reason |-> "Field missing from document",
                            issues |-> << >> ] >>
        /\ \A i \in DOMAIN result.anomalies :
               result.anomalies[i].type = "major" =>
                   /\ result.anomalies[i].field \in KeySet(Template)
                   /\ ~ Has(actual_metadata, result.anomalies[i].field)
                   /\ result.anomalies[i].reason = "Field missing from document"
        /\ \A i \in DOMAIN result.anomalies :
               result.anomalies[i].type \in { "major", "minor" }

\* C2 witness: of two template fields one is missing from the observed map
\* and the other is there and has minor anomalies
C2_Witness ==
    /\ Compared
    /\ Len(Template) = 2
    /\ \E i \in DOMAIN result.anomalies : result.anomalies[i].type = "major"
    /\ \E i \in DOMAIN result.anomalies : result.anomalies[i].type = "minor"

\* the three checks, from the stored ranges and the observed values
XOutside(expected, act) ==
    \/ act.x < expected.position_range.x[1] - U(30)
    \/ act.x > expected.position_range.x[2] + U(30)

YOutside(expected, act) ==
    \/ act.y < expected.position_range.y[1] - U(30)
    \/ act.y > expected.position_range.y[2] + U(30)

SizeOutside(expected, act) ==
    \/ act.size < expected.font_size_range[1]
    \/ act.size > expected.font_size_range[2]

StyleDiffers(expected, act) ==
    \/ normalize_font(act.font) \notin expected.fonts
    \/ act.bold # expected.bold
    \/ act.italic # expected.italic

Bit(b) == IF b THEN 1 ELSE 0

\* C3: for a template field in the observed map the number of anomalies,
\* all minor, is the number of failing checks among position, font size
\* and style; the style check yields one anomaly however many of font name,
\* bold and italic differ; the font size check fails exactly when the size
\* is outside the closed font_size_range.
C3_MultiSignalAccumulation ==
    Compared =>
        \A field \in KeySet(Template) :
            Has(actual_metadata, field) =>
                LET expected == Get(Template, field)
                    act      == Get(actual_metadata, field)
                IN  /\ Len(AnomaliesOf(field)) =
                           Bit(XOutside(expected, act) \/ YOutside(expected, act))
                           + Bit(SizeOutside(expected, act))
                           + Bit(StyleDiffers(expected, act))
                    /\ \A i \in DOMAIN AnomaliesOf(field) :
                           AnomaliesOf(field)[i].type = "minor"
                    /\ CountReason(field, "Style mismatch")
                           = Bit(StyleDiffers(expected, act))
                    /\ CountReason(field, "Font size mismatch")
                           = Bit(SizeOutside(expected, act))

\* C3 witness: all three checks fail for a field, font name and bold both
\* differing, and the field has three anomalies
C3_Witness ==
    /\ Compared
    /\ \E field \in KeySet(Template) :
           /\ Has(actual_metadata, field)
           /\ Len(AnomaliesOf(field)) = 3
           /\ \E i \in DOMAIN AnomaliesOf(field) :
                  Len(AnomaliesOf(field)[i].issues) >= 2

\* the observed map with every width and height replaced
WithExtent(actual, e) ==
    [i \in DOMAIN actual |->
        [k |-> actual[i].k,
         v |-> [actual[i].v EXCEPT !.width = U(e[1]), !.height = U(e[2])]]]

\* C4: for a template field in the observed map a position anomaly is
\* emitted exactly when x is outside [x.lo - 30, x.hi + 30] or y is outside
\* [y.lo - 30, y.hi + 30], once even when both are; the observed width and
\* height do not change the anomalies.
C4_PositionCheck ==
    Compared =>
        /\ \A field \in KeySet(Template) :
               Has(actual_metadata, field) =>
                   LET expected == Get(Template, field)
                       act      == Get(actual_metadata, field)
                   IN  CountReason(field, "Position out of expected range")
                           = Bit(XOutside(expected, act) \/ YOutside(expected, act))
        /\ \A e \in ObsExtents \cup { << 0, 0 >> } :
               compare_with_template(Template, WithExtent(actual_metadata, e)).anomalies
                   = result.anomalies

\* C4 witness: x and y are both outside and one position anomaly is emitted
C4_Witness ==
    /\ Compared
    /\ \E field \in KeySet(Template) :
           /\ Has(actual_metadata, field)
           /\ XOutside(Get(Template, field), Get(actual_metadata, field))
           /\ YOutside(Get(Template, field), Get(actual_metadata, field))
           /\ CountReason(field, "Position out of expected range") = 1

\* C4 witness of the inclusive bound: x is exactly x.lo - 30 and no position
\* anomaly is emitted
C4_BoundaryReached ==
    /\ Compared
    /\ \E field \in KeySet(Template) :
           /\ Has(actual_metadata, field)
           /\ Get(actual_metadata, field).x
                  = Get(Template, field).position_range.x[1] - U(30)
           /\ CountReason(field, "Position out of expected range") = 0

\* ------------------------------------------------------------------------
\* Properties of template generation and validation (Spec)
\* ------------------------------------------------------------------------

\* process_bank_folder returned
Generated == gen_pc = "done"

\* the file makes its loop iteration take the except branch
Fails(f) == Files[f].is_pdf /\ Raises(Files[f])

\* the accumulator after the files of seq, processed in that order by the
\* script that runs
RECURSIVE AccumulateIn(_, _)
AccumulateIn(accumulated, seq) ==
    IF seq = << >> THEN accumulated
    ELSE AccumulateIn(
             IF script = "current"
             THEN process_file(accumulated, Files[Head(seq)], field_list)
             ELSE legacy_process_file(accumulated, Files[Head(seq)], field_list),
             Tail(seq))

\* what src/src/generate_templates.py leaves in the template file for an
\* accumulator (nothing is written for an empty one)
WrittenFor(accumulated) ==
    IF accumulated = EmptyDict THEN NoTemplate
    ELSE AsMap(build_position_range_metadata(accumulated))

\* the same for the template file as it is
Written == IF Template = NoTemplate THEN NoTemplate ELSE AsMap(Template)

\* C5: for every field with accumulated occurrences the template written has
\* position_range x and y at the median -/+ 15, width at the median -/+ 5,
\* height at the median -/+ 3 and font_size_range at the median -/+ 0.5.
C5_MedianMarginBound ==
    (Generated /\ Template # NoTemplate) =>
        \A i \in DOMAIN all_metadata :
            LET field == all_metadata[i].k
                O     == all_metadata[i].v
                m(key) == median(Column(O, key))
            IN  O # << >> =>
                  /\ Has(Template, field)
                  /\ "position_range" \in DOMAIN Get(Template, field)
                  /\ "font_size_range" \in DOMAIN Get(Template, field)
                  /\ Get(Template, field).position_range =
                         [ x      |-> << m("x") - U(15), m("x") + U(15) >>,
                           y      |-> << m("y") - U(15), m("y") + U(15) >>,
                           width  |-> << m("width") - U(5), m("width") + U(5) >>,
                           height |-> << m("height") - U(3), m("height") + U(3) >> ]
                  /\ Get(Template, field).font_size_range =
                         << m("size") - H(1), m("size") + H(1) >>

\* the bound of C5 for the template src/src/generate_templates.py writes
MedianMarginBoundCurrent == script = "current" => C5_MedianMarginBound

\* C6: whatever the order in which the files of the folder were processed,
\* the template written by src/src/generate_templates.py has the fields,
\* ranges, fonts, flags and pages of the template written when they are
\* processed in ascending order.
C6_OrderIndependence ==
    (Generated /\ script = "current") =>
        Written = WrittenFor(AccumulateIn(EmptyDict, SortedList(folder)))

\* C6 witness: the files were processed in another order than ascending,
\* the accumulator differs from the ascending one, and the template has a
\* field built from three occurrences or more
C6_Witness ==
    /\ Generated
    /\ script = "current"
    /\ order # SortedList(folder)
    /\ all_metadata # AccumulateIn(EmptyDict, SortedList(folder))
    /\ Template # NoTemplate
    /\ \E i \in DOMAIN all_metadata :
           /\ Len(all_metadata[i].v) >= 3
           /\ \E j, k \in DOMAIN all_metadata[i].v :
                  all_metadata[i].v[j].x # all_metadata[i].v[k].x

\* C7: a file whose opening or matching raises contributes nothing: the
\* accumulator is the one obtained from the files processed so far with the
\* failing ones removed, the failure is reported, and every file of the
\* folder has been processed when process_bank_folder returns.
C7_PartialFailureIsolation ==
    /\ all_metadata =
           AccumulateIn(EmptyDict, SelectSeq(order, LAMBDA f : ~ Fails(f)))
    /\ errors = { f \in Range(order) : Fails(f) }
    /\ Generated => Range(order) = folder

\* C7 witness: a file whose second page raised after its first page had
\* matched was processed before a readable file, and the accumulator holds
\* the occurrences of the readable one
C7_Witness ==
    /\ Generated
    /\ \E i, j \in DOMAIN order :
           /\ i < j
           /\ Fails(order[i])
           /\ Files[order[i]].opens
           /\ find_field_occurrences(Files[order[i]], field_list).field_metadata
                  # EmptyDict
           /\ ~ Fails(order[j])
           /\ Files[order[j]].is_pdf
    /\ all_metadata # EmptyDict

\* C8: when the document given to validate_pdf cannot be decomposed,
\* validate_pdf does not return an anomaly list as if the comparison had
\* run on the document.
C8_UnreadableNotValidated ==
    (target # 0 /\ ExtractRaises(Files[target])) => result.kind # "report"

\* the keys of a field entry in the persisted template format
EntryKeys ==
    { "position_range", "font_size_range", "fonts", "bold", "italic", "pages" }

\* C9: every field entry of every template written by template generation
\* has position_range (x, y, width, height, each a pair), font_size_range,
\* fonts, bold, italic and pages, and compare_with_template does not fail
\* on a missing key.
C9_TemplateShape ==
    /\ \A b \in AllBanks :
           templates[b] # NoTemplate =>
               \A i \in DOMAIN templates[b] :
                   LET entry == templates[b][i].v
                   IN  /\ EntryKeys \subseteq DOMAIN entry
                       /\ DOMAIN entry.position_range = { "x", "y", "width", "height" }
                       /\ \A key \in DOMAIN entry.position_range :
                              Len(entry.position_range[key]) = 2
                       /\ Len(entry.font_size_range) = 2
    /\ result.kind # "raised"

\* the shape of C9 for the template src/src/generate_templates.py writes
TemplateShapeCurrent == script = "current" => C9_TemplateShape

\* ------------------------------------------------------------------------
\* Specification SpecConcurrent: several validations run compare_with_template
\* against one in-memory template, their loop iterations interleaved
\* ------------------------------------------------------------------------

\* the number of concurrent validations
NumValidators == 2

Validators == 1 .. NumValidators

\* the folders the shared template is generated from
SharedFolders == { {1}, {1, 2}, {1, 3}, {1, 2, 3} }

\* TemplateAfterField with a plausible slip: the observed font is added to
\* the fonts expected of the field
TemplateAfterFieldLearnsFont(template, i, actual) ==
    IF Has(actual, template[i].k)
    THEN [template EXCEPT ![i].v.fonts =
             @ \cup { normalize_font(Get(actual, template[i].k).font) }]
    ELSE template

\* the template after the loop iteration of compare_with_template on its
\* entry i: the iteration reads expected and assigns nothing into it
TemplateAfterField(template, i, actual) == template

\* the observed map after the same iteration: act is only read
ActualAfterField(template, i, actual) == actual

\* actual_metadata = extract_field_occurrences(pdf_path, template.keys())
StartValidation(v, f) ==
    /\ vpc[v] = "idle"
    /\ vpc' = [vpc EXCEPT ![v] = "run"]
    /\ vfile' = [vfile EXCEPT ![v] = f]
    /\ vactual' = [vactual EXCEPT
                     ![v] = extract_field_occurrences(Files[f], Keys(Template))]
    /\ UNCHANGED << vcursor, vanomalies >>
    /\ UNCHANGED << setupVars, genVars, valVars >>

\* one iteration of: for field, expected in template.items()
CompareStep(v) ==
    /\ vpc[v] = "run"
    /\ vcursor[v] < Len(Template)
    /\ LET i     == vcursor[v] + 1
           state == CompareField([raised |-> FALSE, anomalies |-> vanomalies[v]],
                                 Template[i].k, Template[i].v, vactual[v])
       IN  /\ vanomalies' = [vanomalies EXCEPT ![v] = state.anomalies]
           /\ vpc' = [vpc EXCEPT ![v] = IF state.raised THEN "raised" ELSE "run"]
           /\ vcursor' = [vcursor EXCEPT ![v] = i]
           /\ templates' = [templates EXCEPT
                              ![bank_folder] = TemplateAfterField(Template, i, vactual[v])]
           /\ vactual' = [vactual EXCEPT
                            ![v] = ActualAfterField(Template, i, vactual[v])]
    /\ UNCHANGED << vfile, all_metadata, errors, gen_pc, todo, order >>
    /\ UNCHANGED << setupVars, valVars >>

\* return anomalies
FinishValidation(v) ==
    /\ vpc[v] = "run"
    /\ vcursor[v] = Len(Template)
    /\ vpc' = [vpc EXCEPT ![v] = "done"]
    /\ UNCHANGED << vcursor, vfile, vactual, vanomalies >>
    /\ UNCHANGED << setupVars, genVars, valVars >>

InitConcurrent ==
    /\ script = "current"
    /\ bank_folder = "hdfc"
    /\ field_list = << KwDate, KwAccount >>
    /\ folder \in SharedFolders
    /\ doc = NoDoc
    /\ todo = {}
    /\ order = SortedList(folder)
    /\ all_metadata = AccumulateIn(EmptyDict, order)
    /\ errors = {}
    /\ templates = [b \in AllBanks |->
                      IF b = bank_folder
                      THEN build_position_range_metadata(all_metadata)
                      ELSE NoTemplate]
    /\ gen_pc = "done"
    /\ target = 0
    /\ actual_metadata = EmptyDict
    /\ result = NotRun
    /\ vpc = [v \in Validators |-> "idle"]
    /\ vcursor = [v \in Validators |-> 0]
    /\ vfile = [v \in Validators |-> 0]
    /\ vactual = [v \in Validators |-> EmptyDict]
    /\ vanomalies = [v \in Validators |-> << >>]

NextConcurrent ==
    \/ \E v \in Validators, f \in FileIds : StartValidation(v, f)
    \/ \E v \in Validators : CompareStep(v)
    \/ \E v \in Validators : FinishValidation(v)

SpecConcurrent == InitConcurrent /\ [][NextConcurrent]_vars

\* the template as it was published
Published == build_position_range_metadata(all_metadata)

\* C10: compare_with_template modifies neither the template nor the observed
\* map: under any interleaving the template stays as published, every
\* observed map stays as extracted, and a validation returns the anomaly
\* list it returns when it runs alone.
C10_ReadOnlyTemplate ==
    /\ Template = Published
    /\ \A v \in Validators :
           vpc[v] # "idle" =>
               vactual[v] = extract_field_occurrences(Files[vfile[v]], Keys(Published))
    /\ \A v \in Validators :
           vpc[v] = "done" =>
               vanomalies[v] = compare_with_template(Published, vactual[v]).anomalies

\* C10 witness: two validations of different documents have returned, the
\* second having started before the first returned, with different
\* non-empty anomaly lists
C10_Witness ==
    \E v, w \in Validators :
        /\ v # w
        /\ vpc[v] = "done"
        /\ vpc[w] = "done"
        /\ vfile[v] # vfile[w]
        /\ vanomalies[v] # << >>
        /\ vanomalies[w] # << >>
        /\ vanomalies[v] # vanomalies[w]

\* ------------------------------------------------------------------------
\* Specification SpecMatch: the matchers applied to one document
\*   find_field_occurrences of the script that runs (Find, LegacyFind) and
\*   extract_field_occurrences (Extract), on a document and a keyword list
\*   drawn from bounded sets
\* ------------------------------------------------------------------------

\* the most lines the first page holds
MaxLines == 2

KwRef == << "R", "Eacute", "f" >>

TxAccountUnder == << "A", "/", "c", "_", "N", "o" >>
TxRf           == << "R", "F" >>

\* the keyword lists: one or two of the keywords, in either order
MatchFieldLists ==
    LET kws == { KwDate, KwAccount, KwRef }
    IN  { << k >> : k \in kws } \cup
        { l \in kws \X kws : l[1] # l[2] }

\* the lines a page is made of, as the texts of their spans
MatchLines ==
    { << TxDate >>,                \* one keyword
      << TxAccount >>,             \* the other one
      << TxDate, TxAccount >>,     \* two keywords on one line
      << TxAcc, TxNo >>,           \* a keyword no single span holds
      << TxAccountUnder >>,        \* an underscore inside the keyword
      << TxRf >>,                  \* the ASCII letters of "Ref" with an accent
      << TxName >> }               \* no keyword

\* the first page: up to MaxLines lines
FirstPages ==
    UNION { [1 .. n -> MatchLines] : n \in 0 .. MaxLines }

\* the second page: none, or one line with the date
SecondPages == { << >>, << << TxDate >> >> }

\* line l (from 1) of page p (from 0), span j at x = 100 j, y = 200 p + 40 l
LineAt(texts, p, l) ==
    [j \in DOMAIN texts |->
        Span(texts[j], 100 * j, 200 * p + 40 * l, 40, 10, Arial, 20)]

PageAt(lines, p) ==
    Page(<< ImageBlock,
            TextBlock([l \in DOMAIN lines |-> LineAt(lines[l], p, l)]) >>)

MatchDoc(first, second) ==
    Pdf("HDFC0000000",
        IF second = << >>
        THEN << PageAt(first, 0) >>
        ELSE << PageAt(first, 0), PageAt(second, 1) >>)

MatchDocs == { MatchDoc(first, second) : first \in FirstPages, second \in SecondPages }

\* a result of extract_field_occurrences is held
Extracted == [kind |-> "extracted"]

\* pdf_meta = find_field_occurrences(pdf, field_list)  (src/src)
Find ==
    /\ gen_pc = "scan"
    /\ script = "current"
    /\ all_metadata' = find_field_occurrences(doc, field_list).field_metadata
    /\ gen_pc' = "done"
    /\ UNCHANGED << errors, templates, todo, order >>
    /\ UNCHANGED << setupVars, valVars, concVars >>

\* pdf_meta = find_field_occurrences(pdf, field_list)  (older script)
LegacyFind ==
    /\ gen_pc = "scan"
    /\ script = "legacy"
    /\ all_metadata' = legacy_find_field_occurrences(doc, field_list).field_metadata
    /\ gen_pc' = "done"
    /\ UNCHANGED << errors, templates, todo, order >>
    /\ UNCHANGED << setupVars, valVars, concVars >>

\* actual_metadata = extract_field_occurrences(pdf_path, field_list)
Extract ==
    /\ result = NotRun
    /\ actual_metadata' = extract_field_occurrences(doc, field_list)
    /\ result' = Extracted
    /\ UNCHANGED target
    /\ UNCHANGED << setupVars, genVars, concVars >>

InitMatch ==
    /\ script \in { "current", "legacy" }
    /\ bank_folder = "hdfc"
    /\ field_list \in MatchFieldLists
    /\ folder = {}
    /\ doc \in MatchDocs
    /\ todo = {}
    /\ order = << >>
    /\ all_metadata = EmptyDict
    /\ errors = {}
    /\ templates = [b \in AllBanks |-> NoTemplate]
    /\ gen_pc = "scan"
    /\ target = 0
    /\ actual_metadata = EmptyDict
    /\ result = NotRun
    /\ vpc = NoValidators
    /\ vcursor = NoValidators
    /\ vfile = NoValidators
    /\ vactual = NoValidators
    /\ vanomalies = NoValidators

NextMatch ==
    \/ Find
    \/ LegacyFind
    \/ Extract

SpecMatch == InitMatch /\ [][NextMatch]_vars

\* ------------------------------------------------------------------------
\* Properties of the matchers (SpecMatch)
\* ------------------------------------------------------------------------

\* the lines of a readable page, in order, over its text blocks
RECURSIVE LinesOfBlocks(_)
LinesOfBlocks(blocks) ==
    IF blocks = << >> THEN << >>
    ELSE (IF "lines" \in DOMAIN Head(blocks) THEN Head(blocks).lines ELSE << >>)
         \o LinesOfBlocks(Tail(blocks))

\* the lines of the document, each with the index of its page (from 0)
LinesOf(pdf) ==
    UNION { LET lines == LinesOfBlocks(pdf.pages[p].blocks)
            IN  { [page |-> p - 1, spans |-> lines[l]] : l \in DOMAIN lines } :
            p \in DOMAIN pdf.pages }

\* the y coordinates of the spans of a line
Ys(spans) == { spans[j].bbox[2] : j \in DOMAIN spans }

\* the keyword's normalized form is found in the normalized line text, by
\* the generation script that runs and by the validation
FoundAtSynthesis(keyword, spans) ==
    IF script = "current"
    THEN IsSubstr(NormWord(keyword), NormWord(JoinTexts(spans)))
    ELSE IsSubstr(NormAlnum(keyword), NormAlnum(JoinTexts(spans)))

FoundAtValidation(keyword, spans) ==
    IsSubstr(NormAlnum(keyword), NormAlnum(JoinTexts(spans)))

\* the first keyword of the list found in the line, as a set: empty when
\* none is found
FirstFoundAtSynthesis(spans) ==
    LET hits == { i \in DOMAIN field_list : FoundAtSynthesis(field_list[i], spans) }
    IN  IF hits = {} THEN {}
        ELSE { field_list[CHOOSE i \in hits : \A j \in hits : i <= j] }

FirstFoundAtValidation(spans) ==
    LET hits == { i \in DOMAIN field_list : FoundAtValidation(field_list[i], spans) }
    IN  IF hits = {} THEN {}
        ELSE { field_list[CHOOSE i \in hits : \A j \in hits : i <= j] }

\* the keywords the generation matcher recorded an occurrence for on a line
RecordedAtSynthesis(line) ==
    { k \in KeySet(all_metadata) :
          \E i \in DOMAIN Get(all_metadata, k) :
              /\ Get(all_metadata, k)[i].page = line.page
              /\ Get(all_metadata, k)[i].y \in Ys(line.spans) }

\* C11: a line records an occurrence for at most one keyword, the first of
\* the list whose normalized form is found in the normalized line text: at
\* generation every line of the document has occurrences for that keyword
\* only, and at validation every entry of the observed map comes from a
\* first-page line whose first found keyword it is.
C11_FirstKeywordWins ==
    /\ gen_pc = "done" =>
           \A line \in LinesOf(doc) :
               RecordedAtSynthesis(line) \subseteq FirstFoundAtSynthesis(line.spans)
    /\ result = Extracted =>
           \A i \in DOMAIN actual_metadata :
               \E line \in LinesOf(doc) :
                   /\ line.page = 0
                   /\ actual_metadata[i].v.y \in Ys(line.spans)
                   /\ actual_metadata[i].k \in FirstFoundAtValidation(line.spans)

\* the same with src/generate_templates.py as the generation script: that
\* script and the validation leave the keyword loop at the first keyword
\* found
FirstKeywordWinsLegacy == script = "legacy" => C11_FirstKeywordWins

\* find_field_occurrences records an occurrence of the keyword on a line
\* made of these spans, and extract_field_occurrences does
MatchesAtSynthesis(keyword, spans) ==
    Has(ScanKeywords(EmptyDict, spans, 0, << keyword >>), keyword)

MatchesAtValidation(keyword, spans) ==
    Has(ExtractScanFields(EmptyDict, spans, << keyword >>), keyword)

\* the texts the matchers normalize: the keywords, the line texts and the
\* span texts
NormalizedTexts ==
    Range(field_list)
        \cup { JoinTexts(line.spans) : line \in LinesOf(doc) }
        \cup UNION { { line.spans[j].text : j \in DOMAIN line.spans } :
                     line \in LinesOf(doc) }

\* the normalization of src/src/generate_templates.py and that of
\* detect_anomalies.py give the same text for every keyword, line text and
\* span text
NormalizationsCoincide ==
    \A t \in NormalizedTexts : NormWord(t) = NormAlnum(t)

\* C12: the generation matcher and the validation matcher normalize alike
\* (ASCII letters and digits kept, in lower case), so for every keyword of
\* the list and every line of the document, texts with underscores or
\* letters outside ASCII included, both agree on whether the keyword matches
\* the line.
C12_NormalizationSymmetry ==
    (gen_pc = "done" /\ script = "current" /\ result = Extracted) =>
        \A i \in DOMAIN field_list :
            \A line \in LinesOf(doc) :
                MatchesAtSynthesis(field_list[i], line.spans)
                    = MatchesAtValidation(field_list[i], line.spans)

\* the agreement on texts made of ASCII letters, digits and non-word
\* characters only: there the two normalizations coincide
MatchersAgreeOnAscii ==
    (gen_pc = "done" /\ script = "current" /\ result = Extracted) =>
        \A i \in DOMAIN field_list :
            \A line \in LinesOf(doc) :
                (\A t \in { field_list[i], JoinTexts(line.spans) } :
                     \A c \in Range(t) : IsWordChar(c) => IsAsciiAlnum(c))
                    => MatchesAtSynthesis(field_list[i], line.spans)
                           = MatchesAtValidation(field_list[i], line.spans)

\* the lines of the first page, in order
FirstPageLines(pdf) == LinesOfBlocks(pdf.pages[1].blocks)

\* the spans of the line whose normalized text holds the normalized field
SpansHolding(field, spans) ==
    { j \in DOMAIN spans : IsSubstr(NormAlnum(field), NormAlnum(spans[j].text)) }

\* the lines of the first page on which the validation matcher records the
\* field: it is the first field of the list found in the line, and a span
\* of the line holds it
RecordingLines(field) ==
    { l \in DOMAIN FirstPageLines(doc) :
          /\ field \in FirstFoundAtValidation(FirstPageLines(doc)[l])
          /\ SpansHolding(field, FirstPageLines(doc)[l]) # {} }

\* the occurrence the matcher records for the field on line l
RecordedOn(field, l) ==
    LET spans == FirstPageLines(doc)[l]
        hits  == SpansHolding(field, spans)
    IN  ObservedAt(spans[CHOOSE j \in hits : \A h \in hits : j <= h])

\* the last line of a non-empty set of lines
LastOf(ls) == CHOOSE l \in ls : \A m \in ls : m <= l

\* C15: the observed map has one entry per field at most, for fields of the
\* list only; a field has an entry exactly when a line of the first page
\* records it, the entry being the occurrence recorded on the last such
\* line; no entry comes from a page after the first.
C15_ObservedMapConstruction ==
    result = Extracted =>
        /\ Cardinality(KeySet(actual_metadata)) = Len(actual_metadata)
        /\ KeySet(actual_metadata) \subseteq Range(field_list)
        /\ \A k \in Range(field_list) :
               IF RecordingLines(k) = {}
               THEN ~ Has(actual_metadata, k)
               ELSE /\ Has(actual_metadata, k)
                    /\ Get(actual_metadata, k) = RecordedOn(k, LastOf(RecordingLines(k)))
        /\ \A i \in DOMAIN actual_metadata :
               \E line \in LinesOf(doc) :
                   /\ line.page = 0
                   /\ actual_metadata[i].v.y \in Ys(line.spans)

\* C15 witness: the field is recorded on two lines of the first page and is
\* found on the second page too; the observed map has the occurrence of the
\* later line of the first page, which is not that of the earlier one
C15_Witness ==
    /\ result = Extracted
    /\ Len(doc.pages) = 2
    /\ \E k \in Range(field_list) :
           /\ Cardinality(RecordingLines(k)) >= 2
           /\ \E line \in LinesOf(doc) :
                  line.page = 1 /\ FoundAtValidation(k, line.spans)
           /\ Has(actual_metadata, k)
           /\ Get(actual_metadata, k) = RecordedOn(k, LastOf(RecordingLines(k)))
           /\ \E l \in RecordingLines(k) :
                  RecordedOn(k, l) # Get(actual_metadata, k)

\* ------------------------------------------------------------------------
\* Properties of the fields of the template (Spec)
\* ------------------------------------------------------------------------

\* the template validate_pdf loaded for the document it was given
TargetTemplate ==
    templates[bank_from_ifsc_prefix(DetectIfsc(Files[target]))]

\* the fields of keys, in the order the bank's field list gives them
InListOrder(keys) == SelectSeq(field_list, LAMBDA k : k \in keys)

\* C13: validation searches the template's fields in the order of the
\* bank's field list, the order generation used: the observed map of the
\* validated document is the one extract_field_occurrences gives for these
\* fields in field-list order, whatever the order in which the training
\* documents made the fields enter the template.
C13_KeywordOrderAtValidation ==
    (script = "current" /\ target # 0 /\ result.kind = "report") =>
        AsMap(actual_metadata) =
            AsMap(extract_field_occurrences(Files[target],
                                            InListOrder(KeySet(TargetTemplate))))

\* the keyword has an occurrence in the file, for the generation of
\* src/src/generate_templates.py (its keywords are searched independently)
OccursIn(keyword, f) ==
    /\ Files[f].is_pdf
    /\ ~ Fails(f)
    /\ Has(find_field_occurrences(Files[f], << keyword >>).field_metadata, keyword)

\* C14: once the folder is processed and the template built, the template
\* has an entry for a field exactly when an occurrence of it was
\* accumulated, that is when a file of the folder that was read has one; it
\* has entries for fields of the field list only; and a validation reports
\* anomalies for fields with an entry only, so a field without occurrences
\* is not reported, not even as missing.
C14_FieldOmission ==
    /\ (Generated /\ script = "current") =>
           /\ \A k \in Range(field_list) :
                  /\ (Template # NoTemplate /\ Has(Template, k))
                         <=> (Has(all_metadata, k) /\ Get(all_metadata, k) # << >>)
                  /\ (Template # NoTemplate /\ Has(Template, k))
                         <=> \E f \in folder : OccursIn(k, f)
           /\ Template # NoTemplate => KeySet(Template) \subseteq Range(field_list)
    /\ (script = "current" /\ target # 0 /\ result.kind = "report") =>
           \A i \in DOMAIN result.anomalies :
               Has(TargetTemplate, result.anomalies[i].field)

\* C14 witness: the template was built with an entry for one field of the
\* list and none for another, which no file of the folder has; a document
\* was validated against it, its observed map has no entry for that field,
\* and the report has anomalies, none of them for that field
C14_Witness ==
    /\ Generated
    /\ script = "current"
    /\ Template # NoTemplate
    /\ target # 0
    /\ result.kind = "report"
    /\ TargetTemplate = Template
    /\ result.anomalies # << >>
    /\ \E k, h \in Range(field_list) :
           /\ Has(Template, h)
           /\ ~ Has(Template, k)
           /\ ~ Has(all_metadata, k)
           /\ ~ Has(actual_metadata, k)
           /\ \A i \in DOMAIN result.anomalies : result.anomalies[i].field # k

====
